---- MODULE Spec2Model ----
(***************************************************************************)
(* CAT (CI-V style) protocol loop of the X6100 GUI: src/src/cat.c.         *)
(*                                                                         *)
(* The model follows cat.c function by function.  The frame buffer is the  *)
(* 256-byte array frame[], indexed 0..255 as in the source.  A 64-bit      *)
(* frequency is kept as a pair <<hi, lo>> with value hi * 100000 + lo,     *)
(* because ten decimal digits do not fit the model checker's integers;     *)
(* the arithmetic on the pair is the arithmetic of the source (% 10, / 10, *)
(* * 10 +) carried out on the two limbs.                                   *)
(*                                                                         *)
(* The functions cat.c calls but does not define (to_bcd, from_bcd,        *)
(* radio_set_freq, radio_set_mode, radio_set_vfo, radio_set_ptt,           *)
(* radio_get_state, params_bands_find, bands_activate, event_send) are     *)
(* modelled from the interface description of the specification.           *)
(***************************************************************************)
EXTENDS Integers, Sequences, FiniteSets, TLC

FRAME_PRE == 254
FRAME_END == 253
CODE_OK == 251
CODE_NG == 250

C_RD_FREQ == 3
C_RD_MODE == 4
C_SET_FREQ == 5
C_SET_MODE == 6
C_SET_VFO == 7
C_CTL_PTT == 28
C_SEND_SEL_FREQ == 37
C_SEND_SEL_MODE == 38

S_VFOA == 0
S_VFOB == 1

M_LSB == 0
M_USB == 1
M_AM == 2
M_CW == 3
M_NFM == 5
M_CWR == 7

\* sizeof(frame)
FRAME_SIZE == 256
\* the fixed local address prepare_answer stores
LOCAL_ADDR == 164

X6100_VFO_A == 0
X6100_VFO_B == 1

x6100_mode_lsb == "lsb"
x6100_mode_lsb_dig == "lsb_dig"
x6100_mode_usb == "usb"
x6100_mode_usb_dig == "usb_dig"
x6100_mode_cw == "cw"
x6100_mode_cwr == "cwr"
x6100_mode_am == "am"
x6100_mode_nfm == "nfm"

\* the values of x6100_mode_t
XModes ==
    { x6100_mode_lsb, x6100_mode_lsb_dig, x6100_mode_usb, x6100_mode_usb_dig,
      x6100_mode_cw, x6100_mode_cwr, x6100_mode_am, x6100_mode_nfm }

\* What the uninitialized r_mode of ci_mode_2_x_mode may hold when the wire
\* mode is unknown: any enumerator, or a value that is none of them.
UninitModes == XModes \cup {"garbage"}

RADIO_RX == "rx"
RADIO_TX == "tx"

Byte == 0..255

----------------------------------------------------------------------------
(* 64-bit unsigned values as <<hi, lo>>, value = hi * 100000 + lo *)

U64(hi, lo) == <<hi, lo>>

\* data % 10
U64Mod10(d) == d[2] % 10

\* data / 10
U64Div10(d) == <<d[1] \div 10, (d[1] % 10) * 10000 + (d[2] \div 10)>>

\* data * 10 + x, for 0 <= x <= 15
U64MulAdd10(d, x) ==
    LET t == d[2] * 10 + x
    IN  <<d[1] * 10 + (t \div 100000), t % 100000>>

\* a <= b
U64Le(a, b) == a[1] < b[1] \/ (a[1] = b[1] /\ a[2] <= b[2])

----------------------------------------------------------------------------
(* BCD codec: to_bcd / from_bcd of util.c, as section 4.1 describes them *)

RECURSIVE to_bcd_loop(_, _, _, _, _)
to_bcd_loop(fr, off, data, i, n) ==
    IF i >= n THEN fr
    ELSE LET lo == U64Mod10(data)
             d1 == U64Div10(data)
             hi == U64Mod10(d1)
             d2 == U64Div10(d1)
         IN  to_bcd_loop([fr EXCEPT ![off + i] = hi * 16 + lo], off, d2, i + 1, n)

\* mutant: the bytes are written most-significant first
to_bcd_msb_first(fr, off, data, len) ==
    LET n == len \div 2
        r == to_bcd_loop(fr, off, data, 0, n)
    IN  [i \in DOMAIN fr |->
            IF i \in off..(off + n - 1) THEN r[off + (n - 1) - (i - off)] ELSE fr[i]]

\* to_bcd(&frame[off], data, len): len digits, least-significant first, two
\* per byte, low nibble first (len is even at every call site)
to_bcd(fr, off, data, len) == to_bcd_loop(fr, off, data, 0, len \div 2)

RECURSIVE from_bcd_loop(_, _, _, _)
from_bcd_loop(fr, off, i, data) ==
    IF i < 0 THEN data
    ELSE LET b == fr[off + i]
         IN  from_bcd_loop(fr, off, i - 1,
                           U64MulAdd10(U64MulAdd10(data, b \div 16), b % 16))

\* from_bcd(&frame[off], len)
from_bcd(fr, off, len) == from_bcd_loop(fr, off, (len \div 2) - 1, U64(0, 0))

----------------------------------------------------------------------------
(* Mode translator *)

\* ci_mode_2_x_mode(mode, dig_mode): has_dig says dig_mode != NULL, dig is
\* *dig_mode, uninit is what the uninitialized r_mode holds
ci_mode_2_x_mode(mode, has_dig, dig, uninit) ==
    LET data_mode == has_dig /\ dig # 0
    IN  CASE mode = M_LSB -> IF data_mode THEN x6100_mode_lsb_dig ELSE x6100_mode_lsb
          [] mode = M_USB -> IF data_mode THEN x6100_mode_usb_dig ELSE x6100_mode_usb
          [] mode = M_AM  -> x6100_mode_am
          [] mode = M_CW  -> x6100_mode_cw
          [] mode = M_NFM -> x6100_mode_nfm
          [] mode = M_CWR -> x6100_mode_cwr
          [] OTHER        -> uninit

\* the wire mode codes ci_mode_2_x_mode has a case for
KnownModes == {M_LSB, M_USB, M_AM, M_CW, M_NFM, M_CWR}

\* mutant: the digital variants have no case and fall to the default
x_mode_2_ci_mode_nodig(mode) ==
    CASE mode = x6100_mode_lsb -> M_LSB
      [] mode = x6100_mode_usb -> M_USB
      [] mode = x6100_mode_cw  -> M_CW
      [] mode = x6100_mode_cwr -> M_CWR
      [] mode = x6100_mode_am  -> M_AM
      [] mode = x6100_mode_nfm -> M_NFM
      [] OTHER -> 0

x_mode_2_ci_mode(mode) ==
    CASE mode \in {x6100_mode_lsb, x6100_mode_lsb_dig} -> M_LSB
      [] mode \in {x6100_mode_usb, x6100_mode_usb_dig} -> M_USB
      [] mode = x6100_mode_cw  -> M_CW
      [] mode = x6100_mode_cwr -> M_CWR
      [] mode = x6100_mode_am  -> M_AM
      [] mode = x6100_mode_nfm -> M_NFM
      [] OTHER -> 0

----------------------------------------------------------------------------
(* Radio bridge, band table and event bus (radio.c, params.c, events.c) *)

\* the band table params_bands_find searches: <<id, start, stop>>
Bands ==
    { <<"40m", U64(70, 0), U64(72, 0)>>,
      <<"20m", U64(140, 0), U64(143, 50000)>> }

BandNone == "none"

\* params_bands_find(freq, &band): the band holding freq, if one exists
params_bands_find(freq) ==
    LET hit == {b \in Bands : U64Le(b[2], freq) /\ U64Le(freq, b[3])}
    IN  IF hit = {} THEN BandNone ELSE (CHOOSE b \in hit : TRUE)[1]

\* radio_set_freq(freq): applies to the active VFO
radio_set_freq(st, freq) ==
    [st EXCEPT !.params_band.vfo_x[st.params_band.vfo].freq = freq]

\* radio_set_mode(vfo, mode)
radio_set_mode(st, vfo, mode) ==
    [st EXCEPT !.params_band.vfo_x[vfo].mode = mode]

\* radio_set_vfo(vfo)
radio_set_vfo(st, vfo) == [st EXCEPT !.params_band.vfo = vfo]

\* radio_set_ptt(on)
radio_set_ptt(st, on) ==
    [st EXCEPT !.radio_state = IF on THEN RADIO_TX ELSE RADIO_RX]

\* radio_get_state()
radio_get_state(st) == st.radio_state

\* event_send(lv_scr_act(), EVENT_SCREEN_UPDATE, NULL)
event_send(st) == [st EXCEPT !.events = @ + 1]

----------------------------------------------------------------------------
(* cat.c: the functions below frame_get *)

\* write(fd, frame, n): the first n bytes of frame go out when fd is usable
write(st, n) ==
    IF st.fd = "ok"
    THEN [st EXCEPT !.wr = Append(@, [i \in 1..n |-> st.frame[i - 1]])]
    ELSE [st EXCEPT !.badio = TRUE]

\* frame[len - 1] = FRAME_END.  With len = 0 the store goes to frame[-1],
\* outside the array: it either lands in memory the program never reads or
\* overwrites the neighbouring static, the descriptor fd (st.ub_fd).
store_end(st, len) ==
    IF len - 1 \in 0..(FRAME_SIZE - 1)
    THEN [st EXCEPT !.frame[len - 1] = FRAME_END]
    ELSE [st EXCEPT !.oob = TRUE,
                    !.fd = IF st.ub_fd THEN "bad" ELSE @]

send_frame(st, len) == write(store_end(st, len), len)


\* mutant: the source address is stored, the destination is left as received
prepare_answer_noswap(st) ==
    [st EXCEPT !.frame = [@ EXCEPT ![3] = LOCAL_ADDR]]

\* mutant: the two address bytes are exchanged
prepare_answer_swap(st) ==
    [st EXCEPT !.frame = [@ EXCEPT ![2] = st.frame[3], ![3] = st.frame[2]]]

prepare_answer(st) ==
    [st EXCEPT !.frame = [@ EXCEPT ![2] = st.frame[3], ![3] = LOCAL_ADDR]]


\* mutant: the code is stored after the opcode, which is kept
send_code_keep_op(st, code) ==
    send_frame([st EXCEPT !.frame[5] = code], 7)

send_code(st, code) ==
    send_frame([st EXCEPT !.frame[4] = code], 6)

set_freq(st, freq) ==
    LET b  == params_bands_find(freq)
        s1 == IF b # BandNone THEN [st EXCEPT !.freq_band = b] ELSE st
    IN  event_send(radio_set_freq(s1, freq))


\* mutant: the range test lets selector 2 through
set_vfo_ok_le2(vfo) == vfo \in {S_VFOA, S_VFOB, 2}

set_vfo_ok(vfo) == vfo \in {S_VFOA, S_VFOB}

\* set_vfo(vfo): the state after the call; set_vfo_ok is its return value
set_vfo(st, vfo) ==
    CASE vfo = S_VFOA -> radio_set_vfo(st, X6100_VFO_A)
      [] vfo = S_VFOB -> radio_set_vfo(st, X6100_VFO_B)
      [] OTHER -> st

\* the test of frame_parse that drops a frame: both bytes differ from 0xFE
preamble_rejected(fr) == fr[0] # FRAME_PRE /\ fr[1] # FRAME_PRE

ActiveFreq(st) == st.params_band.vfo_x[st.params_band.vfo].freq
ActiveMode(st) == st.params_band.vfo_x[st.params_band.vfo].mode

case_rd_freq(st) ==
    send_frame([st EXCEPT !.frame = to_bcd(@, 5, ActiveFreq(st), 10)], 11)

case_rd_mode(st) ==
    LET v == x_mode_2_ci_mode(ActiveMode(st))
    IN  send_frame([st EXCEPT !.frame = [@ EXCEPT ![5] = v, ![6] = v]], 8)


\* mutant: the BCD field is decoded one byte too far
case_set_freq_off6(st) ==
    send_code(set_freq(st, from_bcd(st.frame, 6, 10)), CODE_OK)

case_set_freq(st) ==
    send_code(set_freq(st, from_bcd(st.frame, 5, 10)), CODE_OK)

case_set_mode(st) ==
    LET m == ci_mode_2_x_mode(st.frame[5], FALSE, 0, st.ub_mode)
    IN  send_code(event_send(radio_set_mode(st, st.params_band.vfo, m)), CODE_OK)

\* mutant: the query form releases the transmitter before it answers
case_ctl_ptt_query_unkeys(st) ==
    IF st.frame[5] = 0
    THEN IF st.frame[6] = FRAME_END
         THEN LET s0 == radio_set_ptt(st, FALSE)
                  v  == IF radio_get_state(s0) = RADIO_RX THEN 0 ELSE 1
              IN  send_frame([s0 EXCEPT !.frame[6] = v], 8)
         ELSE LET s1 == CASE st.frame[6] = 0 -> radio_set_ptt(st, FALSE)
                          [] st.frame[6] = 1 -> radio_set_ptt(st, TRUE)
                          [] OTHER -> st
              IN  send_frame([s1 EXCEPT !.frame[6] = CODE_OK], 8)
    ELSE st

\* mutant: the set form keys the transmitter on value 0 and releases it on 1
case_ctl_ptt_inverted(st) ==
    IF st.frame[5] = 0
    THEN IF st.frame[6] = FRAME_END
         THEN LET v == IF radio_get_state(st) = RADIO_RX THEN 0 ELSE 1
              IN  send_frame([st EXCEPT !.frame[6] = v], 8)
         ELSE LET s1 == CASE st.frame[6] = 0 -> radio_set_ptt(st, TRUE)
                          [] st.frame[6] = 1 -> radio_set_ptt(st, FALSE)
                          [] OTHER -> st
              IN  send_frame([s1 EXCEPT !.frame[6] = CODE_OK], 8)
    ELSE st

case_ctl_ptt(st) ==
    IF st.frame[5] = 0
    THEN IF st.frame[6] = FRAME_END
         THEN LET v == IF radio_get_state(st) = RADIO_RX THEN 0 ELSE 1
              IN  send_frame([st EXCEPT !.frame[6] = v], 8)
         ELSE LET s1 == CASE st.frame[6] = 0 -> radio_set_ptt(st, FALSE)
                          [] st.frame[6] = 1 -> radio_set_ptt(st, TRUE)
                          [] OTHER -> st
              IN  send_frame([s1 EXCEPT !.frame[6] = CODE_OK], 8)
    ELSE st

case_set_vfo(st) ==
    IF set_vfo_ok(st.frame[5])
    THEN send_code(event_send(set_vfo(st, st.frame[5])), CODE_OK)
    ELSE send_code(set_vfo(st, st.frame[5]), CODE_NG)

\* the VFO a selected-VFO-frequency frame names: 0x00 is A, anything else B
sel_freq_vfo(b) == IF b = 0 THEN X6100_VFO_A ELSE X6100_VFO_B


\* mutant: the query form reports the active VFO whatever the selector
case_sel_freq_active(st) ==
    LET v == sel_freq_vfo(st.frame[5])
    IN  IF st.frame[6] = FRAME_END
        THEN send_frame([st EXCEPT !.frame = to_bcd(@, 6, ActiveFreq(st), 10)], 12)
        ELSE LET freq == from_bcd(st.frame, 6, 10)
                 s1   == [st EXCEPT !.params_band.vfo_x[v].freq = freq]
                 s2   == IF st.params_band.vfo = v THEN set_freq(s1, freq) ELSE s1
             IN  send_code(s2, CODE_OK)

\* mutant: the set form applies the frequency live whatever VFO is active
case_sel_freq_always_live(st) ==
    LET v == sel_freq_vfo(st.frame[5])
    IN  IF st.frame[6] = FRAME_END
        THEN send_frame([st EXCEPT !.frame =
                            to_bcd(@, 6, st.params_band.vfo_x[v].freq, 10)], 12)
        ELSE LET freq == from_bcd(st.frame, 6, 10)
                 s1   == [st EXCEPT !.params_band.vfo_x[v].freq = freq]
             IN  send_code(set_freq(s1, freq), CODE_OK)

case_sel_freq(st) ==
    LET v == sel_freq_vfo(st.frame[5])
    IN  IF st.frame[6] = FRAME_END
        THEN send_frame([st EXCEPT !.frame =
                            to_bcd(@, 6, st.params_band.vfo_x[v].freq, 10)], 12)
        ELSE LET freq == from_bcd(st.frame, 6, 10)
                 s1   == [st EXCEPT !.params_band.vfo_x[v].freq = freq]
                 s2   == IF st.params_band.vfo = v THEN set_freq(s1, freq) ELSE s1
             IN  send_code(s2, CODE_OK)

\* the VFO a selected-VFO-mode set frame applies to: the active one for a
\* zero selector, the other one for any non-zero selector
sel_mode_vfo(st) ==
    IF st.frame[5] # 0
    THEN (IF st.params_band.vfo = X6100_VFO_A THEN X6100_VFO_B ELSE X6100_VFO_A)
    ELSE st.params_band.vfo

case_sel_mode(st) ==
    IF st.frame[6] = FRAME_END
    THEN send_frame([st EXCEPT !.frame =
                        [@ EXCEPT ![6] = 0, ![7] = 0, ![8] = CODE_OK]], 10)
    ELSE LET m == ci_mode_2_x_mode(st.frame[6], TRUE, st.frame[7], st.ub_mode)
         IN  send_code(event_send(radio_set_mode(st, sel_mode_vfo(st), m)), CODE_OK)


\* mutant: an unknown opcode is acknowledged
case_default_ok(st) == send_code(st, CODE_OK)

case_default(st) == send_code(st, CODE_NG)

dispatch(st) ==
    CASE st.frame[4] = C_RD_FREQ       -> case_rd_freq(st)
      [] st.frame[4] = C_RD_MODE       -> case_rd_mode(st)
      [] st.frame[4] = C_SET_FREQ      -> case_set_freq(st)
      [] st.frame[4] = C_SET_MODE      -> case_set_mode(st)
      [] st.frame[4] = C_CTL_PTT       -> case_ctl_ptt(st)
      [] st.frame[4] = C_SET_VFO       -> case_set_vfo(st)
      [] st.frame[4] = C_SEND_SEL_FREQ -> case_sel_freq(st)
      [] st.frame[4] = C_SEND_SEL_MODE -> case_sel_mode(st)
      [] OTHER                         -> case_default(st)

\* mutant: the reply is written before the echo
frame_parse_reply_first(st, len) ==
    IF preamble_rejected(st.frame)
    THEN st
    ELSE send_frame(dispatch(prepare_answer(st)), len)

frame_parse(st, len) ==
    IF preamble_rejected(st.frame)
    THEN st
    ELSE dispatch(prepare_answer(send_frame(st, len)))

\* frame_get's loop, in closed form.  The loop stores byte after byte at
\* frame[len++] and stops at the first 0xFD (returning len) or when len
\* reaches sizeof(frame) (returning 0): it consumes frame_get_used(ch) bytes.
frame_get_used(ch) ==
    LET ends == {i \in 1..FRAME_SIZE : i <= Len(ch) /\ ch[i] = FRAME_END}
    IN  IF ends # {} THEN CHOOSE i \in ends : \A j \in ends : i <= j
        ELSE FRAME_SIZE

\* mutant: the bytes that follow the terminator are stored as well
frame_get_past_end(ch) ==
    LET used == frame_get_used(ch)
    IN  [len   |-> IF ch[used] = FRAME_END THEN used ELSE 0,
         frame |-> [i \in 0..(FRAME_SIZE - 1) |->
                       IF i < Len(ch) THEN ch[i + 1] ELSE 0],
         used  |-> used]

\* frame_get(): memset(frame, 0), then the loop; ch is what read() delivers
frame_get(ch) ==
    LET used == frame_get_used(ch)
    IN  [len   |-> IF ch[used] = FRAME_END THEN used ELSE 0,
         frame |-> [i \in 0..(FRAME_SIZE - 1) |-> IF i < used THEN ch[i + 1] ELSE 0],
         used  |-> used]

\* the channel holds enough for frame_get to return: a terminator among its
\* first 256 bytes, or 256 bytes
HasUnit(ch) ==
    \/ Len(ch) >= FRAME_SIZE
    \/ \E i \in 1..Len(ch) : ch[i] = FRAME_END

\* cat_thread's test of frame_get's result: len is a uint16_t
parse_wanted(len) == len >= 0

----------------------------------------------------------------------------
(* State *)

VARIABLES
    pc,           \* "init": before cat_init; "get": cat_thread in frame_get;
                  \* "parse": cat_thread about to call frame_parse
    fd,           \* the descriptor: "none" (open failed), "ok", "closed", "bad"
    chan,         \* bytes received on the port that read() has not returned yet
    frame,        \* static uint8_t frame[256]
    len,          \* cat_thread's len, the result of the latest frame_get
    params_band,  \* params_band.vfo and params_band.vfo_x[].freq / .mode
    radio_state,  \* what radio_get_state() returns
    freq_band,    \* params.freq_band
    wr,           \* the write() calls that succeeded since the latest frame_get
    events,       \* the display notifications since the latest frame_get
    oob,          \* a store outside frame[] happened since the latest frame_get
    badio,        \* a read() or write() was attempted on an unusable descriptor
    rx,           \* history: the bytes the latest frame_get consumed
    pre,          \* history: the radio state when the latest frame_get returned
    prev,         \* history: the frame processed before the latest one, if Tracked
    lastSet,      \* history: the value of the latest set-frequency frame
                  \* dispatched (the initial frequency before the first)
    setFresh,     \* history: since lastSet was recorded no select-VFO frame with
                  \* a valid selector and no selected-VFO-frequency set frame
                  \* for the active VFO was dispatched
    calc          \* the latest application of the BCD codec on its own: its
                  \* arguments and results

vars == <<pc, fd, chan, frame, len, params_band, radio_state, freq_band,
          wr, events, oob, badio, rx, pre, prev, lastSet, setFresh, calc>>

Radio == [params_band |-> params_band, radio_state |-> radio_state]

Zeros(n) == [i \in 1..n |-> 0]

\* no codec call made yet
CalcIdle ==
    [op |-> "idle", v |-> U64(0, 0), d |-> 0, bytes |-> [i \in 0..0 |-> 0],
     out |-> U64(0, 0)]

\* a terminated frame from controller address src: preamble bytes p0 p1,
\* destination 0x00, opcode and payload in body
Frm(p0, p1, src, body) == <<p0, p1, 0, src>> \o body \o <<FRAME_END>>

\* 256 bytes without a terminator that begin like such a frame
Run(p0, p1, src, body) ==
    LET h == <<p0, p1, 0, src>> \o body
    IN  h \o Zeros(FRAME_SIZE - Len(h))

\* packed BCD of 7074000, of 9999999999, and five bytes that are not BCD
Bcd7074000 == <<0, 64, 7, 7, 0>>
Bcd9999999999 == <<153, 153, 153, 153, 153>>
NotBcd == <<255, 255, 255, 255, 255>>

\* one frame of every opcode and shape
Bodies ==
    { <<C_RD_FREQ>>, <<C_RD_MODE>>,
      <<C_SET_FREQ>> \o Bcd7074000,
      <<C_SET_MODE, M_CW>>,
      <<C_SET_VFO, S_VFOB>>,
      <<C_CTL_PTT, 0>>, <<C_CTL_PTT, 0, 1>>,
      <<C_SEND_SEL_FREQ, 0>>, <<C_SEND_SEL_FREQ, 1>> \o Bcd7074000,
      <<C_SEND_SEL_MODE, 0>>, <<C_SEND_SEL_MODE, 0, M_USB, 1>>,
      <<0>> }

\* every combination of a right and a wrong preamble byte
Preambles ==
    { <<FRAME_PRE, FRAME_PRE>>, <<FRAME_PRE, 0>>, <<0, FRAME_PRE>>, <<0, 0>> }

\* what may arrive in one piece: the frames above from controller 0xE0, two
\* frames from address 0xA4, frames and unterminated 256-byte runs under
\* every preamble, two frames too short to hold an opcode, and two frames
\* back to back
Inputs ==
    {Frm(FRAME_PRE, FRAME_PRE, 224, b) : b \in Bodies}
    \cup {Frm(FRAME_PRE, FRAME_PRE, LOCAL_ADDR, b) :
            b \in {<<C_RD_FREQ>>, <<C_SET_VFO, S_VFOB>>}}
    \cup {Frm(p[1], p[2], 224, b) :
            p \in Preambles, b \in {<<C_RD_FREQ>>, <<C_SET_FREQ>> \o Bcd7074000}}
    \cup {Run(p[1], p[2], 224, b) :
            p \in Preambles, b \in {<<C_RD_FREQ>>, <<C_SET_FREQ>> \o Bcd7074000}}
    \cup {<<FRAME_END>>, <<FRAME_PRE, FRAME_END>>}
    \cup {Frm(FRAME_PRE, FRAME_PRE, 224, <<C_RD_MODE>>)
            \o Frm(FRAME_PRE, FRAME_PRE, 224, <<C_RD_FREQ>>)}

\* history keeps a frame for the next step when it is a select-VFO,
\* set-frequency or set-mode frame or the set form of a dual-shape opcode,
\* with both preamble bytes right
Tracked(s) ==
    /\ Len(s) >= 7
    /\ s[Len(s)] = FRAME_END
    /\ s[1] = FRAME_PRE /\ s[2] = FRAME_PRE
    /\ \/ s[5] \in {C_SET_VFO, C_SET_FREQ, C_SET_MODE}
       \/ s[5] \in {C_CTL_PTT, C_SEND_SEL_FREQ, C_SEND_SEL_MODE} /\ s[7] # FRAME_END

Init ==
    /\ pc = "init"
    /\ fd = "none"
    /\ chan = <<>>
    /\ frame = [i \in 0..(FRAME_SIZE - 1) |-> 0]
    /\ len = 0
    /\ params_band =
         [vfo |-> X6100_VFO_A,
          vfo_x |-> (X6100_VFO_A :> [freq |-> U64(140, 74000), mode |-> x6100_mode_usb]
                     @@ X6100_VFO_B :> [freq |-> U64(71, 0), mode |-> x6100_mode_lsb])]
    /\ radio_state = RADIO_RX
    /\ freq_band = "20m"
    /\ wr = <<>>
    /\ events = 0
    /\ oob = FALSE
    /\ badio = FALSE
    /\ rx = <<>>
    /\ pre = Radio
    /\ prev = <<>>
    /\ lastSet = U64(140, 74000)
    /\ setFresh = TRUE
    /\ calc = CalcIdle

\* cat_init(): open and configure the port, then start cat_thread
CatInit ==
    /\ pc = "init"
    /\ \E r \in {"ok", "open_fail", "attr_fail"} :
         fd' = CASE r = "ok" -> "ok"
                 [] r = "open_fail" -> "none"
                 [] r = "attr_fail" -> "closed"
    /\ pc' = "get"
    /\ UNCHANGED <<chan, frame, len, params_band, radio_state, freq_band,
                   wr, events, oob, badio, rx, pre, prev, lastSet, setFresh, calc>>

\* what frame_get makes of each byte sequence of S
Units(S) == { <<s, frame_get(s)>> : s \in S }

InputUnits == Units(Inputs)

\* what read() delivers to one call of frame_get: the bytes pending in
\* chan, followed, when they do not complete a frame, by what the
\* controller sends next (an element of U)
Delivered(U) ==
    IF chan = <<>> THEN U
    ELSE IF HasUnit(chan) THEN Units({chan})
    ELSE Units({chan \o u[1] : u \in U})

\* cat_thread: len = frame_get(), up to the test of len
FrameGet(U) ==
    /\ pc = "get"
    /\ fd = "ok"
    /\ \E u \in Delivered(U) :
         /\ HasUnit(u[1])
         /\ frame' = u[2].frame
         /\ len' = u[2].len
         /\ rx' = SubSeq(u[1], 1, u[2].used)
         /\ chan' = SubSeq(u[1], u[2].used + 1, Len(u[1]))
         /\ pc' = IF parse_wanted(u[2].len) THEN "parse" ELSE "get"
    /\ prev' = IF len > 0 /\ Tracked(rx) THEN rx ELSE <<>>
    /\ wr' = <<>> /\ events' = 0 /\ oob' = FALSE /\ pre' = Radio
    /\ UNCHANGED <<fd, params_band, radio_state, freq_band, badio,
                   lastSet, setFresh, calc>>

\* frame_get on a descriptor that is not open: read() fails, usleep, retry
ReadFail ==
    /\ pc = "get"
    /\ fd # "ok"
    /\ badio' = TRUE
    /\ UNCHANGED <<pc, fd, chan, frame, len, params_band, radio_state, freq_band,
                   wr, events, oob, rx, pre, prev, lastSet, setFresh, calc>>

\* history: the frame in the buffer is dispatched as a set-frequency frame
SetsFreq == ~preamble_rejected(frame) /\ frame[4] = C_SET_FREQ

\* history: the frame in the buffer is dispatched as a select-VFO frame with
\* selector 0x00 or 0x01, or as the set form of the selected-VFO-frequency
\* opcode naming the active VFO
Retunes ==
    /\ ~preamble_rejected(frame)
    /\ \/ frame[4] = C_SET_VFO /\ frame[5] \in {S_VFOA, S_VFOB}
       \/ /\ frame[4] = C_SEND_SEL_FREQ /\ frame[6] # FRAME_END
          /\ (frame[5] = 0) = (params_band.vfo = X6100_VFO_A)

\* the states frame_parse(len) can leave, one for each outcome of the
\* undefined behaviour it may run into
ParseOutcomes ==
    { [frame_parse([frame |-> frame, fd |-> fd, wr |-> <<>>, oob |-> FALSE,
                    badio |-> badio, params_band |-> params_band,
                    radio_state |-> radio_state, freq_band |-> freq_band,
                    events |-> 0, ub_mode |-> um, ub_fd |-> uf], len)
         EXCEPT !.ub_mode = "", !.ub_fd = FALSE] :
        um \in UninitModes, uf \in BOOLEAN }

\* cat_thread: frame_parse(len)
FrameParse ==
    /\ pc = "parse"
    /\ \E st1 \in ParseOutcomes :
             /\ frame' = st1.frame
             /\ fd' = st1.fd
             /\ wr' = st1.wr
             /\ oob' = st1.oob
             /\ badio' = st1.badio
             /\ params_band' = st1.params_band
             /\ radio_state' = st1.radio_state
             /\ freq_band' = st1.freq_band
             /\ events' = st1.events
    /\ pre' = Radio
    /\ lastSet' = IF SetsFreq THEN from_bcd(frame, 5, 10) ELSE lastSet
    /\ setFresh' = IF SetsFreq THEN TRUE ELSE IF Retunes THEN FALSE ELSE setFresh
    /\ pc' = "get"
    /\ UNCHANGED <<chan, len, rx, prev, calc>>

Next ==
    \/ CatInit
    \/ FrameGet(InputUnits)
    \/ ReadFail
    \/ FrameParse

Spec == Init /\ [][Next]_vars

----------------------------------------------------------------------------
(* The same program under a controller that sends frequency frames *)

InputsFreq ==
    {Frm(FRAME_PRE, FRAME_PRE, LOCAL_ADDR, <<C_RD_FREQ>>),
     Frm(FRAME_PRE, FRAME_PRE, 224, <<C_RD_FREQ>>),
     Frm(FRAME_PRE, FRAME_PRE, 224, <<C_SET_FREQ>>),
     Frm(FRAME_PRE, FRAME_PRE, 224, <<C_SET_VFO, S_VFOA>>),
     Frm(FRAME_PRE, FRAME_PRE, 224, <<C_SET_VFO, S_VFOB>>),
     Frm(FRAME_PRE, FRAME_PRE, 224, <<C_SEND_SEL_FREQ, 0>>),
     Frm(FRAME_PRE, FRAME_PRE, 224, <<C_SEND_SEL_FREQ, 1>>),
     Run(FRAME_PRE, FRAME_PRE, 224, <<C_SET_FREQ>> \o Bcd9999999999)}
    \cup {Frm(FRAME_PRE, FRAME_PRE, 224, <<C_SET_FREQ>> \o v) :
            v \in {Bcd7074000, Bcd9999999999, NotBcd}}
    \cup {Frm(FRAME_PRE, FRAME_PRE, 224, <<C_SEND_SEL_FREQ, x>> \o v) :
            x \in {0, 1}, v \in {Bcd7074000, Bcd9999999999, NotBcd}}

FreqUnits == Units(InputsFreq)

NextFreq ==
    \/ CatInit
    \/ FrameGet(FreqUnits)
    \/ ReadFail
    \/ FrameParse

SpecFreq == Init /\ [][NextFreq]_vars

----------------------------------------------------------------------------
(* The same program under a controller that sends frames it should reject *)

InputsErr ==
    {Frm(FRAME_PRE, FRAME_PRE, 224, b) :
        b \in { <<C_SET_VFO, 2>>, <<C_SET_VFO, 160>>, <<C_SET_VFO>>,
                <<C_SET_VFO, S_VFOB>>,
                <<>>, <<0>>, <<2>>, <<8>>, <<25>>, <<29>>, <<39>>, <<CODE_NG>>,
                <<C_CTL_PTT>>, <<C_CTL_PTT, 1>>, <<C_CTL_PTT, 1, 1>>,
                <<C_CTL_PTT, 0>>,
                <<C_SEND_SEL_FREQ>>, <<C_SEND_SEL_FREQ, 2>>,
                <<C_SEND_SEL_FREQ, 2>> \o Bcd7074000,
                <<C_SEND_SEL_FREQ, 0, 18>>,
                <<C_SEND_SEL_FREQ, 1>>,
                <<C_SEND_SEL_MODE>>, <<C_SEND_SEL_MODE, 2>>,
                <<C_SEND_SEL_MODE, 2, M_AM, 0>>, <<C_SEND_SEL_MODE, 0, M_USB>>,
                <<C_SEND_SEL_MODE, 0>> }}
    \cup {<<FRAME_PRE, FRAME_PRE, FRAME_END>>}

ErrUnits == Units(InputsErr)

NextErr ==
    \/ CatInit
    \/ FrameGet(ErrUnits)
    \/ ReadFail
    \/ FrameParse

SpecErr == Init /\ [][NextErr]_vars

----------------------------------------------------------------------------
(* The same program under a controller that sets and reads modes *)

\* set-mode with every known wire mode, with the unknown 0x04 and without
\* a mode byte; selected-VFO-mode set for the active VFO with every known
\* mode and both data flags, without the data flag, with an unknown mode
\* and for the other VFO; both queries; read-mode; select VFO B
InputsMode ==
    {Frm(FRAME_PRE, FRAME_PRE, 224, <<C_SET_MODE, w>>) : w \in KnownModes \cup {4}}
    \cup {Frm(FRAME_PRE, FRAME_PRE, 224, <<C_SEND_SEL_MODE, 0, w, f>>) :
            w \in KnownModes, f \in {0, 1}}
    \cup {Frm(FRAME_PRE, FRAME_PRE, 224, b) :
            b \in { <<C_SET_MODE>>,
                    <<C_SEND_SEL_MODE, 0, M_LSB>>, <<C_SEND_SEL_MODE, 0, M_USB>>,
                    <<C_SEND_SEL_MODE, 0, 4, 0>>,
                    <<C_SEND_SEL_MODE, 1, M_USB, 0>>,
                    <<C_SEND_SEL_MODE, 0>>, <<C_SEND_SEL_MODE, 1>>,
                    <<C_RD_MODE>>,
                    <<C_SET_VFO, S_VFOB>> }}

ModeUnits == Units(InputsMode)

NextMode ==
    \/ CatInit
    \/ FrameGet(ModeUnits)
    \/ ReadFail
    \/ FrameParse

SpecMode == Init /\ [][NextMode]_vars

----------------------------------------------------------------------------
(* The same program under a controller that keys the transmitter *)

\* transmit-control query, set with 0, 1 and 2, from two controllers;
\* read-frequency, read-mode, set-mode and select-VFO frames between them
InputsPtt ==
    {Frm(FRAME_PRE, FRAME_PRE, src, b) :
        src \in {224, LOCAL_ADDR},
        b \in { <<C_CTL_PTT, 0>>, <<C_CTL_PTT, 0, 0>>, <<C_CTL_PTT, 0, 1>>,
                <<C_CTL_PTT, 0, 2>> }}
    \cup {Frm(FRAME_PRE, FRAME_PRE, 224, b) :
            b \in { <<C_RD_FREQ>>, <<C_RD_MODE>>, <<C_SET_MODE, M_CW>>,
                    <<C_SET_VFO, S_VFOB>>, <<C_SET_VFO, S_VFOA>> }}

PttUnits == Units(InputsPtt)

NextPtt ==
    \/ CatInit
    \/ FrameGet(PttUnits)
    \/ ReadFail
    \/ FrameParse

SpecPtt == Init /\ [][NextPtt]_vars

----------------------------------------------------------------------------
(* The same program on a line that delivers frames in pieces *)

\* the first four bytes of a frame from controller 0xE0
FrameHead == <<FRAME_PRE, FRAME_PRE, 0, 224>>

\* whole frames; a frame followed by the head of the next one; the tails
\* that complete a head; two frames back to back; a frame of exactly 256
\* bytes; 256 bytes without terminator, alone and followed by a frame; a
\* lone terminator
InputsGet ==
    { Frm(FRAME_PRE, FRAME_PRE, 224, <<C_RD_MODE>>),
      Frm(FRAME_PRE, FRAME_PRE, 224, <<C_SET_VFO, S_VFOB>>),
      Frm(FRAME_PRE, FRAME_PRE, 224, <<C_RD_MODE>>) \o FrameHead,
      <<C_RD_FREQ, FRAME_END>>,
      <<C_SET_FREQ>> \o Bcd7074000 \o <<FRAME_END>>,
      Frm(FRAME_PRE, FRAME_PRE, 224, <<C_RD_MODE>>)
          \o Frm(FRAME_PRE, FRAME_PRE, 224, <<C_RD_FREQ>>),
      FrameHead \o <<C_SET_FREQ>> \o Zeros(FRAME_SIZE - 6) \o <<FRAME_END>>,
      Run(0, 0, 224, <<C_RD_FREQ>>),
      Run(0, 0, 224, <<C_RD_FREQ>>) \o Frm(FRAME_PRE, FRAME_PRE, 224, <<C_RD_FREQ>>),
      <<FRAME_END>> }

GetUnits == Units(InputsGet)

NextGet ==
    \/ CatInit
    \/ FrameGet(GetUnits)
    \/ ReadFail
    \/ FrameParse

SpecGet == Init /\ [][NextGet]_vars

----------------------------------------------------------------------------
(* The BCD codec on its own: encode a value with d digits, decode the bytes *)

\* the largest digit count tried
MaxDigits == 12

\* the even digit counts
Digits == {d \in 2..MaxDigits : d % 2 = 0}

RECURSIVE Pow10(_)
Pow10(n) == IF n <= 0 THEN 1 ELSE 10 * Pow10(n - 1)

\* v is representable in d decimal digits: v < 10^d
Fits(v, d) ==
    IF d >= 5 THEN v[1] < Pow10(d - 5)
    ELSE v[1] = 0 /\ v[2] < Pow10(d)

\* the values encoded: zero, single digits, the frequencies of the initial
\* state, values with every digit 9 and values of up to twelve digits
CodecValues ==
    { U64(h, l) : h \in {0, 1, 9, 70, 140, 99999, 1234567, 9999999},
                  l \in {0, 1, 9, 10, 99, 74000, 99999} }

\* to_bcd(buf, v, d) on a zeroed buffer of d / 2 bytes
BcdEncode ==
    /\ calc.op # "to_bcd"
    /\ \E v \in CodecValues, d \in Digits :
         calc' = [op |-> "to_bcd", v |-> v, d |-> d,
                  bytes |-> to_bcd([i \in 0..(d \div 2 - 1) |-> 0], 0, v, d),
                  out |-> U64(0, 0)]
    /\ UNCHANGED <<pc, fd, chan, frame, len, params_band, radio_state, freq_band,
                   wr, events, oob, badio, rx, pre, prev, lastSet, setFresh>>

\* from_bcd(buf, d) on the bytes just encoded
BcdDecode ==
    /\ calc.op = "to_bcd"
    /\ calc' = [calc EXCEPT !.op = "from_bcd",
                            !.out = from_bcd(calc.bytes, 0, calc.d)]
    /\ UNCHANGED <<pc, fd, chan, frame, len, params_band, radio_state, freq_band,
                   wr, events, oob, badio, rx, pre, prev, lastSet, setFresh>>

NextBcd ==
    \/ BcdEncode
    \/ BcdDecode

SpecBcd == Init /\ [][NextBcd]_vars

----------------------------------------------------------------------------
(* Vocabulary of the properties *)

\* frame_parse has run on the bytes rx of the latest frame_get
Parsed == pc = "get" /\ rx # <<>>

\* byte k of the buffer as frame_get returned it
Rx(k) == IF k + 1 <= Len(rx) THEN rx[k + 1] ELSE 0

\* the latest frame_get returned a frame: rx ends with the terminator
Terminated == len > 0

\* both preamble bytes of the received bytes are 0xFE
GoodPreamble == Rx(0) = FRAME_PRE /\ Rx(1) = FRAME_PRE

\* a terminated frame with the right preamble was received and parsed
WellFormed == Parsed /\ Terminated /\ GoodPreamble

\* the reply of the latest frame_parse: the write after the echo
HasReply == Len(wr) >= 2
Reply == wr[2]

\* the six-byte reply send_code writes for the received frame
CodeReply(code) == <<Rx(0), Rx(1), Rx(3), LOCAL_ADDR, code, FRAME_END>>

----------------------------------------------------------------------------
(* C1 *)

\* C1: for every received byte sequence that ends with 0xFD and starts
\* with 0xFE 0xFE, the first write of frame_parse is exactly the received
\* bytes, at most one further write (the reply) follows it, and no store
\* left the buffer.
C1_EchoFirst ==
    WellFormed =>
        /\ Len(wr) \in {1, 2}
        /\ wr[1] = rx
        /\ ~oob

\* a well-formed frame was echoed and then answered
C1_Witness == WellFormed /\ Len(wr) = 2 /\ wr[1] = rx /\ wr[2] # rx

(* C2 *)

\* C2: a terminated frame whose first two bytes are not both 0xFE causes no
\* write and leaves the radio state as it was.
C2_MalformedDropped ==
    (Parsed /\ Terminated /\ ~GoodPreamble) =>
        (wr = <<>> /\ Radio = pre /\ events = 0)

(* C3 *)

\* C3: 256 bytes without a terminator cause no write and leave the radio
\* state as it was, whatever their content: the dispatcher is not run.
C3_OverflowDropped ==
    (Parsed /\ ~Terminated) =>
        (wr = <<>> /\ Radio = pre /\ events = 0)

(* C4 *)

\* the ten low decimal digits of a 64-bit value: what ten BCD digits hold
Low10(d) == <<d[1] % 100000, d[2]>>

\* a read-frequency frame was answered with its 11-byte reply
RdFreqReply ==
    Parsed /\ Rx(4) = C_RD_FREQ /\ HasReply /\ Len(Reply) = 11

BadSelectVfo ==
    WellFormed /\ Rx(4) = C_SET_VFO /\ Rx(5) \notin {S_VFOA, S_VFOB}

\* C5: such a frame is answered with the failure code 0xFA, the active VFO
\* (and all other radio state) is as before, and no display notification
\* was sent.
C5_BadSelectorRejected ==
    BadSelectVfo =>
        /\ wr = <<rx, CodeReply(CODE_NG)>>
        /\ params_band.vfo = pre.params_band.vfo
        /\ Radio = pre
        /\ events = 0

\* selector 0xA0 was rejected while VFO B was active
C5_Witness ==
    /\ BadSelectVfo /\ Rx(5) = 160
    /\ params_band.vfo = X6100_VFO_B
    /\ HasReply /\ Reply[5] = CODE_NG

(* C6 *)

\* s is the query form of opcode 0x25 for VFO selector 0x00 or 0x01
SelFreqQuery(s) ==
    /\ Len(s) = 7 /\ s[1] = FRAME_PRE /\ s[2] = FRAME_PRE
    /\ s[5] = C_SEND_SEL_FREQ /\ s[6] \in {0, 1} /\ s[7] = FRAME_END

\* s is the set form of opcode 0x25 for VFO selector 0x00 or 0x01
SelFreqSet(s) ==
    /\ Len(s) = 12 /\ s[1] = FRAME_PRE /\ s[2] = FRAME_PRE
    /\ s[5] = C_SEND_SEL_FREQ /\ s[6] \in {0, 1} /\ s[12] = FRAME_END

\* a query for a VFO was parsed right after a set form for the same VFO
\* that carried a value of at most ten decimal digits
QueryAfterSet ==
    /\ WellFormed /\ SelFreqQuery(rx)
    /\ SelFreqSet(prev) /\ prev[6] = rx[6]
    /\ from_bcd(prev, 7, 10)[1] < 100000

\* C6: the reply to that query is 12 bytes long and its BCD field decodes
\* to the value of the set form, for either VFO, active or not.
C6_QueryReturnsSet ==
    QueryAfterSet =>
        /\ HasReply /\ Len(Reply) = 12
        /\ from_bcd(Reply, 7, 10) = from_bcd(prev, 7, 10)

\* set and query of 9999999999 on the VFO that is not the active one
C6_Witness ==
    /\ QueryAfterSet
    /\ sel_freq_vfo(rx[6]) # params_band.vfo
    /\ from_bcd(prev, 7, 10) = U64(99999, 99999)
    /\ HasReply /\ from_bcd(Reply, 7, 10) = U64(99999, 99999)

(* C7 *)

\* the read-frequency frame of the scenario
RdFreqFrame == <<FRAME_PRE, FRAME_PRE, 0, LOCAL_ADDR, C_RD_FREQ, FRAME_END>>

\* bytes a..b of sequence s are packed BCD: both nibbles are decimal digits
IsBcd(s, a, b) == \A i \in a..b : s[i] \div 16 <= 9 /\ s[i] % 16 <= 9

\* the frequency of the active VFO when the frame was received
PreActiveFreq == pre.params_band.vfo_x[pre.params_band.vfo].freq

\* C7 as claimed: the reply to [FE FE 00 A4 03 FD] is the 11 bytes
\* [FE FE A4 00 03 b0..b4 FD], b0..b4 the packed BCD of the active VFO's
\* frequency.
C7_ReplyAsClaimed ==
    (Parsed /\ rx = RdFreqFrame) =>
        /\ HasReply /\ Len(Reply) = 11
        /\ SubSeq(Reply, 1, 5) = <<FRAME_PRE, FRAME_PRE, LOCAL_ADDR, 0, C_RD_FREQ>>
        /\ Reply[11] = FRAME_END
        /\ IsBcd(Reply, 6, 10)
        /\ from_bcd(Reply, 6, 10) = Low10(PreActiveFreq)

\* C7 as amended: the reply is the 11 bytes [FE FE A4 A4 03 b0..b4 FD]
\* (offset 3 holds the local address 0xA4, not 0x00), b0..b4 the packed BCD
\* of the ten low decimal digits of the active VFO's frequency.
C7_ReplyRdFreq ==
    (Parsed /\ rx = RdFreqFrame) =>
        /\ wr[1] = rx
        /\ HasReply /\ Len(Reply) = 11
        /\ SubSeq(Reply, 1, 5) =
             <<FRAME_PRE, FRAME_PRE, LOCAL_ADDR, LOCAL_ADDR, C_RD_FREQ>>
        /\ Reply[11] = FRAME_END
        /\ IsBcd(Reply, 6, 10)
        /\ from_bcd(Reply, 6, 10) = Low10(PreActiveFreq)

\* the scenario frame was answered with the frequency 7074000 of VFO B
C7_Witness ==
    /\ Parsed /\ rx = RdFreqFrame /\ HasReply
    /\ pre.params_band.vfo = X6100_VFO_B
    /\ SubSeq(Reply, 6, 10) = Bcd7074000

(* C8 *)

\* the select-VFO-B frame of the scenario
SelectBFrame ==
    <<FRAME_PRE, FRAME_PRE, 0, LOCAL_ADDR, C_SET_VFO, S_VFOB, FRAME_END>>

\* VFO B as stored when the latest frame was received
PreB == pre.params_band.vfo_x[X6100_VFO_B]

\* a well-formed read-frequency / read-mode frame was parsed while VFO B
\* was the active one
ReadFreqOnB ==
    WellFormed /\ Rx(4) = C_RD_FREQ /\ pre.params_band.vfo = X6100_VFO_B
ReadModeOnB ==
    WellFormed /\ Rx(4) = C_RD_MODE /\ pre.params_band.vfo = X6100_VFO_B

\* what reads report once VFO B is selected: B's frequency and B's mode
ReadsReflectB ==
    /\ ReadFreqOnB =>
         (HasReply /\ Len(Reply) = 11 /\ from_bcd(Reply, 6, 10) = Low10(PreB.freq))
    /\ ReadModeOnB =>
         (HasReply /\ Len(Reply) = 8
            /\ Reply[6] = x_mode_2_ci_mode(PreB.mode)
            /\ Reply[7] = x_mode_2_ci_mode(PreB.mode))

\* C8 as claimed: [FE FE 00 A4 07 01 FD] is answered with the 7 bytes
\* [FE FE A4 00 07 FB FD] and makes VFO B the active one, whose frequency
\* and mode later reads report.
C8_ReplyAsClaimed ==
    /\ (Parsed /\ rx = SelectBFrame) =>
         /\ wr = <<rx, <<FRAME_PRE, FRAME_PRE, LOCAL_ADDR, 0, C_SET_VFO,
                         CODE_OK, FRAME_END>>>>
         /\ params_band.vfo = X6100_VFO_B
    /\ ReadsReflectB

\* C8 as amended: the frame is answered with the 6 bytes
\* [FE FE A4 A4 FB FD] (the success code takes the place of the opcode, and
\* offset 3 holds the local address), VFO B becomes the active one, and
\* read-frequency and read-mode frames processed while it is report VFO
\* B's frequency and mode.
C8_SelectB ==
    /\ (Parsed /\ rx = SelectBFrame) =>
         /\ wr = <<rx, <<FRAME_PRE, FRAME_PRE, LOCAL_ADDR, LOCAL_ADDR,
                         CODE_OK, FRAME_END>>>>
         /\ params_band.vfo = X6100_VFO_B
         /\ events = 1
    /\ ReadsReflectB

\* a read-frequency frame right after the scenario frame reported VFO B
C8_Witness ==
    /\ ReadFreqOnB /\ prev = SelectBFrame
    /\ HasReply /\ from_bcd(Reply, 6, 10) = U64(71, 0)

(* C9 *)

\* the opcodes frame_parse has a case for
Recognized ==
    { C_RD_FREQ, C_RD_MODE, C_SET_FREQ, C_SET_MODE, C_SET_VFO, C_CTL_PTT,
      C_SEND_SEL_FREQ, C_SEND_SEL_MODE }

\* C9: a well-formed frame whose opcode byte is not recognized is echoed
\* and answered with the failure code 0xFA, and the radio state is as
\* before; no display notification is sent.
C9_UnknownOpcodeRejected ==
    (WellFormed /\ Rx(4) \notin Recognized) =>
        /\ wr = <<rx, CodeReply(CODE_NG)>>
        /\ Radio = pre
        /\ events = 0

\* opcode 0x27, next to a recognized one, was rejected on a radio whose
\* state earlier frames had changed
C9_Witness ==
    /\ WellFormed /\ Rx(4) = 39
    /\ params_band.vfo = X6100_VFO_B
    /\ HasReply /\ Reply[5] = CODE_NG

(* C10 *)

\* a well-formed frame of a dual-shape opcode with a malformed payload: no
\* selector byte, an unknown transmit sub-selector, a VFO selector other
\* than 0x00/0x01, or a set form whose value is shorter than required
MalformedDual ==
    /\ WellFormed
    /\ Rx(4) \in {C_CTL_PTT, C_SEND_SEL_FREQ, C_SEND_SEL_MODE}
    /\ \/ Len(rx) = 6
       \/ Rx(4) = C_CTL_PTT /\ Rx(5) # 0
       \/ Rx(4) \in {C_SEND_SEL_FREQ, C_SEND_SEL_MODE} /\ Rx(5) \notin {0, 1}
       \/ Rx(4) = C_SEND_SEL_FREQ /\ Len(rx) \in 8..11
       \/ Rx(4) = C_SEND_SEL_MODE /\ Len(rx) = 8

\* C10: such a frame is answered with the failure code 0xFA and leaves the
\* radio state as it was.
C10_MalformedRejected ==
    MalformedDual =>
        /\ HasReply /\ Reply = CodeReply(CODE_NG)
        /\ Radio = pre

(* C11 *)

\* the received bytes pass the preamble test of frame_parse
PassedPreamble == ~preamble_rejected([i \in 0..1 |-> Rx(i)])

\* C11: every frame that passes the preamble check has, when frame_parse
\* returns and before the next read, its echo followed by exactly one
\* reply write.
C11_EchoThenOneReply ==
    (Parsed /\ Terminated /\ PassedPreamble) =>
        (Len(wr) = 2 /\ wr[1] = rx)

(* C12 *)

\* C12: when opening or configuring the serial device failed, cat_thread
\* does not run and no read or write is attempted on the descriptor.
C12_NoLoopOnFailure ==
    fd \in {"none", "closed"} =>
        (pc \notin {"get", "parse"} /\ ~badio)

(* C13 *)

\* C13: for every digit count d (even) and every value v below 10^d,
\* decoding the d/2 bytes that encoding v with d digits produced yields v.
C13_BcdRoundTrip ==
    (calc.op = "from_bcd" /\ Fits(calc.v, calc.d)) => calc.out = calc.v

\* 7074000 was encoded with ten digits as 00 40 07 07 00, least-significant
\* digits first, and decoded back
C13_Witness ==
    /\ calc.op = "from_bcd" /\ calc.v = U64(70, 74000) /\ calc.d = 10
    /\ calc.bytes = [i \in 0..4 |-> Bcd7074000[i + 1]]
    /\ calc.out = calc.v

(* C14 *)

\* C14: in every reply written for a frame, the destination byte (offset 2)
\* is the source byte (offset 3) of the received frame and the source byte
\* (offset 3) is the local address 0xA4, whatever the opcode and the shape
\* of the reply.
C14_ReplyAddresses ==
    (Parsed /\ HasReply) =>
        (Reply[3] = Rx(3) /\ Reply[4] = LOCAL_ADDR)

\* a twelve-byte reply (selected-VFO-frequency query) went back to the
\* controller at 0xE0 that sent the frame
C14_Witness ==
    /\ WellFormed /\ HasReply /\ Len(Reply) = 12
    /\ Rx(3) = 224 /\ Reply[3] = 224 /\ Reply[4] = LOCAL_ADDR

(* C15 *)

\* a set-mode frame, or the set form of a selected-VFO-mode frame, whose
\* wire mode code is not a known one
UnknownModeSet ==
    /\ WellFormed
    /\ \/ Rx(4) = C_SET_MODE /\ Len(rx) >= 7 /\ Rx(5) \notin KnownModes
       \/ Rx(4) = C_SEND_SEL_MODE /\ Len(rx) >= 8 /\ Rx(6) \notin KnownModes

\* C15: such a frame is rejected: no VFO's mode changes, no display
\* notification is sent and the reply does not carry the success code.
C15_UnknownModeRejected ==
    UnknownModeSet =>
        /\ Radio = pre
        /\ events = 0
        /\ ~(HasReply /\ Reply[5] = CODE_OK)

(* C16 *)

\* the other VFO than v
OtherVfo(v) == IF v = X6100_VFO_A THEN X6100_VFO_B ELSE X6100_VFO_A

\* the VFO a selected-VFO-mode frame addresses: selector 0x00 the active
\* one, 0x01 the other one
ModeTarget ==
    IF Rx(5) = 0 THEN pre.params_band.vfo ELSE OtherVfo(pre.params_band.vfo)

\* the set form of a selected-VFO-mode frame carrying LSB or USB
SelModeSideband ==
    /\ WellFormed /\ Rx(4) = C_SEND_SEL_MODE /\ Len(rx) >= 8
    /\ Rx(5) \in {0, 1} /\ Rx(6) \in {M_LSB, M_USB}

\* C16: such a frame applies the digital variant when a data-flag byte is
\* present and non-zero, and the plain LSB / USB mode otherwise, in
\* particular when the terminator directly follows the mode byte.
C16_NoFlagPlain ==
    SelModeSideband =>
        params_band.vfo_x[ModeTarget].mode =
            IF Len(rx) >= 9 /\ Rx(7) # 0
            THEN (IF Rx(6) = M_LSB THEN x6100_mode_lsb_dig ELSE x6100_mode_usb_dig)
            ELSE (IF Rx(6) = M_LSB THEN x6100_mode_lsb ELSE x6100_mode_usb)

(* C17 *)

\* the query form of a selected-VFO-mode frame
SelModeQuery ==
    /\ WellFormed /\ Rx(4) = C_SEND_SEL_MODE /\ Len(rx) = 7
    /\ Rx(5) \in {0, 1}

\* C17: the query form reports the wire code of the stored mode of the VFO
\* the selector names and changes no state.
C17_QueryReportsMode ==
    SelModeQuery =>
        /\ HasReply
        /\ Reply[7] = x_mode_2_ci_mode(pre.params_band.vfo_x[ModeTarget].mode)
        /\ Radio = pre
        /\ events = 0

(* C18 *)

\* the wire mode a frame sets on the active VFO, 255 when s is no such
\* frame: set-mode, or selected-VFO-mode set with selector 0x00
SetsActiveMode(s) ==
    IF Len(s) = 7 /\ s[5] = C_SET_MODE THEN s[6]
    ELSE IF Len(s) >= 8 /\ s[5] = C_SEND_SEL_MODE /\ s[6] = 0 THEN s[7]
    ELSE 255

\* a read-mode frame was parsed right after a frame setting a known mode
ReadModeAfterSet ==
    /\ WellFormed /\ Rx(4) = C_RD_MODE
    /\ prev # <<>> /\ SetsActiveMode(prev) \in KnownModes

\* C18: translating a known wire mode to the domain, with any data flag,
\* and back gives the same wire mode; so a read-mode right after a frame
\* that set a known mode on the active VFO returns that code in both
\* payload positions.
C18_ModeRoundTrip ==
    /\ \A w \in KnownModes, has \in BOOLEAN, dig \in {0, 1, FRAME_END},
          u \in UninitModes :
         x_mode_2_ci_mode(ci_mode_2_x_mode(w, has, dig, u)) = w
    /\ ReadModeAfterSet =>
         /\ HasReply /\ Len(Reply) = 8
         /\ Reply[5] = C_RD_MODE
         /\ Reply[6] = SetsActiveMode(prev)
         /\ Reply[7] = SetsActiveMode(prev)

\* USB with the data flag was set, stored as the digital variant, and a
\* read-mode returned the wire code of USB
C18_Witness ==
    /\ ReadModeAfterSet
    /\ prev = Frm(FRAME_PRE, FRAME_PRE, 224, <<C_SEND_SEL_MODE, 0, M_USB, 1>>)
    /\ pre.params_band.vfo_x[pre.params_band.vfo].mode = x6100_mode_usb_dig
    /\ HasReply /\ Reply[6] = M_USB /\ Reply[7] = M_USB

(* C19 *)

\* frame_parse is about to run on the set form of a selected-VFO-frequency
\* frame with selector 0x00 or 0x01
SelFreqSetPending ==
    /\ pc = "parse" /\ ~preamble_rejected(frame)
    /\ frame[4] = C_SEND_SEL_FREQ /\ frame[6] # FRAME_END
    /\ frame[5] \in {0, 1}

\* C19: frame_parse then stores the decoded frequency in the VFO the
\* selector names (0x00 is A, 0x01 is B).  When that VFO is the active one
\* the frequency is applied live: the band holding it is selected if there
\* is one and one display notification is sent.  When it is not, the
\* band, the active VFO's stored frequency and mode stay as they were and
\* no notification is sent.  The active VFO is the same afterwards.
C19_SelFreqStores ==
    [][ SelFreqSetPending =>
          LET v == IF frame[5] = 0 THEN X6100_VFO_A ELSE X6100_VFO_B
              f == from_bcd(frame, 6, 10)
              b == params_bands_find(f)
          IN  /\ params_band'.vfo_x[v].freq = f
              /\ params_band'.vfo = params_band.vfo
              /\ IF v = params_band.vfo
                 THEN /\ events' = 1
                      /\ freq_band' = IF b # BandNone THEN b ELSE freq_band
                 ELSE /\ events' = 0
                      /\ freq_band' = freq_band
                      /\ params_band'.vfo_x[params_band.vfo] =
                             params_band.vfo_x[params_band.vfo]
      ]_vars

\* 7074000 was stored in VFO B while VFO A was active, on 14074000 in the
\* 20 m band, and stayed so
C19_Witness ==
    /\ WellFormed /\ Rx(4) = C_SEND_SEL_FREQ /\ Len(rx) = 12 /\ Rx(5) = 1
    /\ pre.params_band.vfo = X6100_VFO_A
    /\ params_band.vfo = X6100_VFO_A
    /\ params_band.vfo_x[X6100_VFO_B].freq = U64(70, 74000)
    /\ params_band.vfo_x[X6100_VFO_A].freq = U64(140, 74000)
    /\ freq_band = "20m" /\ events = 0

(* C20 *)

\* a transmit-control frame with sub-selector 0x00: its query form, and its
\* set form with value 0 or 1
PttQuery == WellFormed /\ Rx(4) = C_CTL_PTT /\ Rx(5) = 0 /\ Len(rx) = 7
PttSet ==
    WellFormed /\ Rx(4) = C_CTL_PTT /\ Rx(5) = 0 /\ Len(rx) = 8 /\ Rx(6) \in {0, 1}

\* the eight-byte reply of the transmit-control case with payload byte v
PttReply(v) ==
    <<FRAME_PRE, FRAME_PRE, Rx(3), LOCAL_ADDR, C_CTL_PTT, 0, v, FRAME_END>>

\* C20: the query form replies 0 when the radio was receiving and 1
\* otherwise and changes no state; the set form with value 0 or 1 switches
\* PTT off or on, changes nothing else and replies with the success code
\* 0xFB as payload; so a query right after a set with value b reports b.
C20_PttQuerySet ==
    /\ PttQuery =>
         /\ wr = <<rx, PttReply(IF pre.radio_state = RADIO_RX THEN 0 ELSE 1)>>
         /\ Radio = pre
         /\ events = 0
    /\ PttSet =>
         /\ wr = <<rx, PttReply(CODE_OK)>>
         /\ radio_state = (IF Rx(6) = 1 THEN RADIO_TX ELSE RADIO_RX)
         /\ params_band = pre.params_band
    /\ (PttQuery /\ prev # <<>> /\ prev[5] = C_CTL_PTT /\ prev[6] = 0
          /\ Len(prev) = 8 /\ prev[7] \in {0, 1}) =>
         (HasReply /\ Reply[7] = prev[7])

\* a query right after a set with value 1 reported 1, the radio transmitting
C20_Witness ==
    /\ PttQuery /\ prev # <<>> /\ prev[5] = C_CTL_PTT /\ Len(prev) = 8
    /\ prev[7] = 1
    /\ radio_state = RADIO_TX
    /\ HasReply /\ Reply[7] = 1

(* C21 *)

\* s is an initial part of t
IsPrefix(s, t) == Len(s) <= Len(t) /\ SubSeq(t, 1, Len(s)) = s

\* C21: whenever a call of frame_get returns a length n other than zero,
\* n is in 1..256, byte n-1 of the buffer is 0xFD and no byte before it
\* is, bytes 0..n-1 are the n bytes the call consumed, which come first
\* among the bytes that were pending followed by those that arrived (the
\* rest stays pending), and every buffer byte from n on is zero.
C21_FrameGetResult ==
    [][ (pc = "get" /\ fd = "ok" /\ len' # 0) =>
          /\ len' \in 1..FRAME_SIZE
          /\ frame'[len' - 1] = FRAME_END
          /\ \A i \in 0..(len' - 2) : frame'[i] # FRAME_END
          /\ Len(rx') = len'
          /\ \A i \in 0..(len' - 1) : frame'[i] = rx'[i + 1]
          /\ \A i \in len'..(FRAME_SIZE - 1) : frame'[i] = 0
          /\ IsPrefix(chan, rx' \o chan') \/ IsPrefix(rx', chan)
          /\ \E u \in InputsGet \cup {<<>>} : rx' \o chan' = chan \o u
      ]_vars

\* frame_get returned the read-frequency frame whose first four bytes
\* arrived behind an earlier frame and whose last two arrived later
C21_Witness ==
    /\ pc = "parse" /\ len = 6
    /\ rx = FrameHead \o <<C_RD_FREQ, FRAME_END>>
    /\ \A i \in 0..5 : frame[i] = rx[i + 1]
    /\ \A i \in 6..(FRAME_SIZE - 1) : frame[i] = 0

(* C22 *)

\* C22: no store or load of frame_parse leaves the 256 bytes of the frame
\* buffer, and every write to the channel is 1 to 256 bytes long:
\* send_frame is never called with length 0.
C22_BufferInBounds ==
    /\ ~oob
    /\ \A i \in 1..Len(wr) : Len(wr[i]) \in 1..FRAME_SIZE

(* C23 *)

\* a well-formed frame of query shape was parsed: read-frequency,
\* read-mode, or the query form of transmit-control (sub-selector 0x00),
\* selected-VFO-frequency or selected-VFO-mode
QueryShaped ==
    /\ WellFormed
    /\ \/ Rx(4) \in {C_RD_FREQ, C_RD_MODE} /\ Len(rx) = 6
       \/ Rx(4) = C_CTL_PTT /\ Rx(5) = 0 /\ Len(rx) = 7
       \/ Rx(4) \in {C_SEND_SEL_FREQ, C_SEND_SEL_MODE} /\ Len(rx) = 7

\* C23: a query-shaped frame leaves both VFOs' frequencies and modes, the
\* active VFO and the transmit state as they were and sends no display
\* notification; it is echoed and answered.
C23_QueriesChangeNothing ==
    QueryShaped =>
        /\ Radio = pre
        /\ events = 0
        /\ Len(wr) = 2 /\ wr[1] = rx

\* a transmit-control query was answered while the radio was transmitting
\* on VFO B, and the radio went on transmitting on VFO B
C23_Witness ==
    /\ QueryShaped /\ Rx(4) = C_CTL_PTT
    /\ pre.radio_state = RADIO_TX /\ pre.params_band.vfo = X6100_VFO_B
    /\ radio_state = RADIO_TX /\ params_band.vfo = X6100_VFO_B
    /\ HasReply

====
